---- MODULE Spec2Model ----
(***************************************************************************)
(* Model of the server pool of the NATS C client (src/srvpool.c).          *)
(*                                                                         *)
(* C strings are sequences of tokens: an optional scheme token            *)
(* ("nats://", "tls://"), a host token, ":" and a port token.  A natsSrv   *)
(* is a heap object; its address is its index in heap.  The natsUrl a srv  *)
(* owns is allocated with it, and its address is written url.ptr.          *)
(* Array indices are the C indices (0-based).                              *)
(***************************************************************************)
EXTENDS Integers, Sequences, FiniteSets, TLC

VARIABLES
    opts,   \* natsOptions: url, servers, noRandomize, maxReconnect
    pool,   \* the natsSrvPool the client holds, NoPool if none
    heap,   \* every natsSrv ever allocated, by address
    freed,  \* how many times each natsSrv was passed to free
    pc,     \* the client's position: "start", "live", "failed", "destroyed"
    last,   \* the last call: its arguments, its result, the state before it
    run     \* the rotations from index 0 made in a row, and where they began

vars == <<opts, pool, heap, freed, pc, last, run>>

(* ---------------------------- bounds ----------------------------------- *)
\* most servers listed in opts->servers
MaxServers == 2
\* most addresses handed to one natsSrvPool_addNewURLs call
MaxUrls == 2
\* most natsSrv objects allocated in one run
MaxSrv == 3
\* largest finite opts->maxReconnect
MaxBudget == 1
\* the connection layer stops counting failed dials here
MaxAttempts == 1
\* largest opts->maxReconnect of the client that retries until no server is left
MaxRetryBudget == 2

(* --------------------------- strings ----------------------------------- *)
NULL == 0

Schemes == {"nats://", "tls://"}
Hosts == {"a", "b"}
Ports == {"4222"}

\* atoi on the port text, and "%d" back
Atoi(p) == CASE p = "4222" -> 4222 [] OTHER -> 0
Itoa(n) == CASE n = 4222 -> "4222" [] OTHER -> "0"

\* bare "host:port" strings
BareStrs == {<<h, ":", p>> : h \in Hosts, p \in Ports}
\* a string the URL parser rejects
BadStr == <<":">>
\* NATS_DEFAULT_URL
NATS_DEFAULT_URL == <<"nats://", "localhost", ":", "4222">>

\* what a configuration may list
ConfigStrs == {<<"a", ":", "4222">>, <<"nats://", "b", ":", "4222">>, BadStr}
\* what discovery may hand over
DiscoveredStrs == BareStrs \cup {BadStr}

\* natsUrl_Create: strip the scheme, split host and port
HasScheme(str) == Len(str) > 0 /\ Head(str) \in Schemes
StripScheme(str) == IF HasScheme(str) THEN Tail(str) ELSE str
UrlValid(str) ==
    LET r == StripScheme(str)
    IN  Len(r) = 3 /\ r[1] \notin Schemes /\ r[1] # ":" /\ r[2] = ":" /\ r[3] \in Ports
natsUrl_Create(ptr, str) ==
    LET r == StripScheme(str)
    IN  [ptr |-> ptr, fullUrl |-> str, host |-> r[1], port |-> Atoi(r[3])]

\* snprintf(bareURL, "%s:%d", host, port)
BareURL(url) == <<url.host, ":", Itoa(url.port)>>
\* snprintf(url, "nats://%s", urls[i])
WithDefaultScheme(str) == <<"nats://">> \o str

\* natsStrHash used as a set of keys
natsStrHash_Set(h, key) == h \cup {key}
natsStrHash_Get(h, key) == key \in h
natsStrHash_Remove(h, key) == h \ {key}

(* ---------------------------- statuses --------------------------------- *)
NATS_OK == "NATS_OK"
NATS_NO_MEMORY == "NATS_NO_MEMORY"
NATS_ERR == "NATS_ERR"

\* where an allocation (or nothing) fails inside one _addURLToPool call
AddFaults == {"none", "srv", "url", "hash", "realloc"}

(* ------------------------------ heap ----------------------------------- *)
\* the program state the pool functions work on
State(p, h, f) == [pool |-> p, heap |-> h, freed |-> f]

NoUrl == [ptr |-> NULL, fullUrl |-> <<>>, host |-> "", port |-> 0]

\* _freeSrv: counts the releases of each object
_freeSrv(st, srv) ==
    IF srv = NULL THEN st
    ELSE [st EXCEPT !.freed[srv] = @ + 1]

\* an allocation that does not zero the srv
Calloc_NotZeroed(st, u) ==
    [st EXCEPT !.heap = Append(@, [url |-> u, reconnects |-> 1]),
               !.freed = Append(@, 0)]

\* NATS_CALLOC(1, sizeof(natsSrv)): the new srv owns the url u
Calloc(st, u) ==
    [st EXCEPT !.heap = Append(@, [url |-> u, reconnects |-> 0]),
               !.freed = Append(@, 0)]

\* _createSrv: allocate the srv, then parse the url
_createSrv(st, url, fault) ==
    IF fault = "srv"
    THEN [st |-> st, s |-> NATS_NO_MEMORY, srv |-> NULL]
    ELSE IF fault # "url" /\ UrlValid(url)
         THEN [st |-> Calloc(st, natsUrl_Create(Len(st.heap) + 1, url)),
               s |-> NATS_OK, srv |-> Len(st.heap) + 1]
         ELSE [st |-> _freeSrv(Calloc(st, NoUrl), Len(st.heap) + 1),
               s |-> IF fault = "url" THEN NATS_NO_MEMORY ELSE NATS_ERR,
               srv |-> NULL]

\* the logical sequence srvrs[0..size-1]
PoolSeq(p) == [i \in 1..p.size |-> p.srvrs[i - 1]]

\* the srvrs that are in the logical sequence
InPool(p) == {p.srvrs[i] : i \in 0..(p.size - 1)}

\* an absent pool (a NULL natsSrvPool*)
NoPool == [srvrs |-> <<>>, size |-> 0, cap |-> 0, urls |-> {}]

(* --------------------------- lookup ------------------------------------ *)
\* the scan that leaves the last server scanned as its result
RECURSIVE ScanFrom_LastScanned(_, _, _)
ScanFrom_LastScanned(st, url, i) ==
    IF i >= st.pool.size
    THEN IF st.pool.size > 0
         THEN [s |-> st.pool.srvrs[st.pool.size - 1], index |-> st.pool.size - 1]
         ELSE [s |-> NULL, index |-> 0 - 1]
    ELSE IF st.heap[st.pool.srvrs[i]].url.ptr = url
         THEN [s |-> st.pool.srvrs[i], index |-> i]
         ELSE ScanFrom_LastScanned(st, url, i + 1)

\* the scan that compares the address text instead of the pointer
RECURSIVE ScanFrom_ByText(_, _, _)
ScanFrom_ByText(st, url, i) ==
    IF i >= st.pool.size
    THEN [s |-> NULL, index |-> 0 - 1]
    ELSE IF /\ url \in 1..Len(st.heap)
            /\ st.heap[st.pool.srvrs[i]].url.fullUrl = st.heap[url].url.fullUrl
         THEN [s |-> st.pool.srvrs[i], index |-> i]
         ELSE ScanFrom_ByText(st, url, i + 1)

\* the loop of natsSrvPool_GetCurrentServer from index i on
RECURSIVE ScanFrom(_, _, _)
ScanFrom(st, url, i) ==
    IF i >= st.pool.size
    THEN [s |-> NULL, index |-> 0 - 1]
    ELSE IF st.heap[st.pool.srvrs[i]].url.ptr = url
         THEN [s |-> st.pool.srvrs[i], index |-> i]
         ELSE ScanFrom(st, url, i + 1)

natsSrvPool_GetCurrentServer(st, url) == ScanFrom(st, url, 0)

(* --------------------------- rotation ---------------------------------- *)
\* the gap at i filled with the last entry
ShiftLeft_TailIntoGap(p, i) ==
    [p EXCEPT !.srvrs[i] = p.srvrs[p.size - 1]]

ShiftLeft_FromNext(p, i) ==
    [p EXCEPT !.srvrs = [j \in DOMAIN p.srvrs |->
                            IF j > i /\ j < p.size - 1 THEN p.srvrs[j + 1]
                            ELSE p.srvrs[j]]]

\* for (j = i; j < size - 1; j++) srvrs[j] = srvrs[j+1]
ShiftLeft(p, i) ==
    [p EXCEPT !.srvrs = [j \in DOMAIN p.srvrs |->
                            IF j >= i /\ j < p.size - 1 THEN p.srvrs[j + 1]
                            ELSE p.srvrs[j]]]

KeepServer_NoUnlimited(maxReconnect, srv) ==
    srv.reconnects < maxReconnect

KeepServer_Inclusive(maxReconnect, srv) ==
    (maxReconnect < 0) \/ (srv.reconnects <= maxReconnect)

\* the budget test of natsSrvPool_GetNextServer
KeepServer(maxReconnect, srv) ==
    (maxReconnect < 0) \/ (srv.reconnects < maxReconnect)

\* pool->srvrs[pool->size - 1] = s
MoveToBack(p, srv) == [p EXCEPT !.srvrs[p.size - 1] = srv]

\* _freeSrv(s); pool->size--
RemoveServer(st, p, srv) ==
    [_freeSrv(st, srv) EXCEPT !.pool = [p EXCEPT !.size = @ - 1]]

Head0_NoEmptyTest(st) == [st |-> st, ret |-> st.pool.srvrs[0]]

\* if (pool->size <= 0) return NULL; return pool->srvrs[0]
Head0(st) ==
    [st |-> st,
     ret |-> IF st.pool.size <= 0 THEN NULL ELSE st.pool.srvrs[0]]

\* natsSrvPool_GetNextServer once the lookup has answered f
RotateFound(st, maxReconnect, f) ==
    IF f.index < 0
    THEN [st |-> st, ret |-> NULL]
    ELSE IF KeepServer(maxReconnect, st.heap[f.s])
         THEN Head0([st EXCEPT !.pool = MoveToBack(ShiftLeft(@, f.index), f.s)])
         ELSE Head0(RemoveServer(st, ShiftLeft(st.pool, f.index), f.s))

\* the slots of pool->srvrs that lines 73-92 read and write when the server
\* was found at index i and is kept (line 80) or not
RotateSlots(p, i, keep) ==
    [reads  |-> {j + 1 : j \in i..(p.size - 2)}
                   \cup (IF keep \/ p.size > 1 THEN {0} ELSE {}),
     writes |-> (i..(p.size - 2)) \cup (IF keep THEN {p.size - 1} ELSE {})]

natsSrvPool_GetNextServer(st, maxReconnect, ncUrl) ==
    RotateFound(st, maxReconnect, natsSrvPool_GetCurrentServer(st, ncUrl))

(* --------------------------- teardown ---------------------------------- *)
RECURSIVE FreeFrom(_, _)
FreeFrom(st, i) ==
    IF i >= st.pool.size THEN st
    ELSE FreeFrom(_freeSrv(st, st.pool.srvrs[i]), i + 1)

\* the teardown whose loop starts at index 1
natsSrvPool_Destroy_FromOne(st) ==
    IF st.pool = NoPool THEN st
    ELSE [FreeFrom(st, 1) EXCEPT !.pool = NoPool]

natsSrvPool_Destroy(st) ==
    IF st.pool = NoPool THEN st
    ELSE [FreeFrom(st, 0) EXCEPT !.pool = NoPool]

(* --------------------------- admission --------------------------------- *)
\* NATS_REALLOC to newCap slots; the new slots hold nothing the code reads
Realloc(p, newCap) ==
    [p EXCEPT !.cap = newCap,
              !.srvrs = [j \in 0..(newCap - 1) |->
                            IF j < p.cap THEN p.srvrs[j] ELSE NULL]]

\* pool->srvrs[pool->size++] = srv
Store(p, srv) == [p EXCEPT !.srvrs[p.size] = srv, !.size = @ + 1]

\* the array grown by one slot instead of doubled
AddToArray_GrowByOne(st, srv, sURL, fault) ==
    IF st.pool.size + 1 > st.pool.cap
    THEN IF fault = "realloc"
         THEN [st |-> _freeSrv([st EXCEPT !.pool.urls =
                                   natsStrHash_Remove(@, sURL)], srv),
               s |-> NATS_NO_MEMORY]
         ELSE [st |-> [st EXCEPT !.pool = Store(Realloc(@, @.cap + 1), srv)],
               s |-> NATS_OK]
    ELSE [st |-> [st EXCEPT !.pool = Store(@, srv)], s |-> NATS_OK]

\* lines 136-162, the key being in the map: grow if full, store, or undo
AddToArray(st, srv, sURL, fault) ==
    IF st.pool.size + 1 > st.pool.cap
    THEN IF fault = "realloc"
         THEN [st |-> _freeSrv([st EXCEPT !.pool.urls =
                                   natsStrHash_Remove(@, sURL)], srv),
               s |-> NATS_NO_MEMORY]
         ELSE [st |-> [st EXCEPT !.pool = Store(Realloc(@, 2 * @.cap), srv)],
               s |-> NATS_OK]
    ELSE [st |-> [st EXCEPT !.pool = Store(@, srv)], s |-> NATS_OK]

\* lines 127-135: _addURLToPool once _createSrv has answered c
AddCreated(c, sURL, fault) ==
    IF c.s # NATS_OK
    THEN [st |-> c.st, s |-> c.s]
    ELSE IF fault = "hash"
         THEN [st |-> _freeSrv(c.st, c.srv), s |-> NATS_NO_MEMORY]
         ELSE AddToArray([c.st EXCEPT !.pool.urls =
                             natsStrHash_Set(@, BareURL(c.st.heap[c.srv].url))],
                         c.srv, sURL, fault)

_addURLToPool(st, sURL, fault) ==
    AddCreated(_createSrv(st, sURL, fault), sURL, fault)

(* ---------------------------- shuffle ---------------------------------- *)
\* the values rand() returns in one _shufflePool call over n entries
RandStreams(n) ==
    {r \in [0..(n - 1) -> 0..(n - 1)] : \A i \in 0..(n - 1) : r[i] <= i}

Swap_NoTmp(srvrs, i, j) == [srvrs EXCEPT ![i] = srvrs[j]]

\* tmp = srvrs[i]; srvrs[i] = srvrs[j]; srvrs[j] = tmp
Swap(srvrs, i, j) == [srvrs EXCEPT ![i] = srvrs[j], ![j] = srvrs[i]]

RECURSIVE ShuffleFrom(_, _, _)
ShuffleFrom(st, rnd, i) ==
    IF i >= st.pool.size THEN st
    ELSE ShuffleFrom([st EXCEPT !.pool.srvrs = Swap(@, i, rnd[i] % (i + 1))],
                     rnd, i + 1)

_shufflePool(st, rnd) ==
    IF st.pool.size <= 1 THEN st ELSE ShuffleFrom(st, rnd, 0)

\* what one _shufflePool call was given and what it left
NoShuffle == [called |-> FALSE, in |-> State(NoPool, <<>>, <<>>),
              out |-> State(NoPool, <<>>, <<>>)]
Shuffled(stIn, stOut) == [called |-> TRUE, in |-> stIn, out |-> stOut]

(* ----------------------------- merge ----------------------------------- *)
\* a fault of one call: which _addURLToPool call (counted from 1) it hits
FaultAt(fault, k) == IF fault.at = k THEN fault.kind ELSE "none"

\* the loop of natsSrvPool_addNewURLs from urls[i] on (i counts from 1);
\* n counts the _addURLToPool calls made so far
RECURSIVE MergeFrom(_, _, _, _, _, _)
RECURSIVE MergeAdded(_, _, _, _, _, _)
MergeFrom(st, urls, i, n, updated, fault) ==
    IF i > Len(urls)
    THEN [st |-> st, s |-> NATS_OK, updated |-> updated]
    ELSE IF ~natsStrHash_Get(st.pool.urls, urls[i])
         THEN MergeAdded(_addURLToPool(st, WithDefaultScheme(urls[i]),
                                       FaultAt(fault, n + 1)),
                         urls, i, n, updated, fault)
         ELSE MergeFrom(st, urls, i + 1, n, updated, fault)

\* the loop that goes on to urls[i+1] after a failed admission
MergeAdded_GoOn(r, urls, i, n, updated, fault) ==
    IF r.s = NATS_OK
    THEN MergeFrom(r.st, urls, i + 1, n + 1, TRUE, fault)
    ELSE [MergeFrom(r.st, urls, i + 1, n + 1, updated, fault) EXCEPT !.s = r.s]

\* the loop once _addURLToPool has answered r for urls[i]
MergeAdded(r, urls, i, n, updated, fault) ==
    IF r.s = NATS_OK
    THEN MergeFrom(r.st, urls, i + 1, n + 1, TRUE, fault)
    ELSE [st |-> r.st, s |-> r.s, updated |-> updated]

\* lines 203-206, the loop having ended as m
MergeShuffle(m, st2) ==
    [st |-> st2, s |-> m.s, shuffle |-> Shuffled(m.st, st2)]

MergeEnd_WheneverAsked(m, doShuffle, rnd) ==
    IF doShuffle
    THEN MergeShuffle(m, _shufflePool(m.st, rnd))
    ELSE [st |-> m.st, s |-> m.s, shuffle |-> NoShuffle]

\* if (updated && doShuffle) _shufflePool(pool); return s
MergeEnd(m, doShuffle, rnd) ==
    IF m.updated /\ doShuffle
    THEN MergeShuffle(m, _shufflePool(m.st, rnd))
    ELSE [st |-> m.st, s |-> m.s, shuffle |-> NoShuffle]

natsSrvPool_addNewURLs(st, urls, doShuffle, fault, rnd) ==
    MergeEnd(MergeFrom(st, urls, 1, 0, FALSE, fault), doShuffle, rnd)

(* -------------------------- construction ------------------------------- *)
\* opts->url == NULL
NullStr == <<>>

\* the servers admitted before the url
Configured_ServersFirst(o) ==
    o.servers \o (IF o.url # NullStr THEN <<o.url>> ELSE <<>>)

\* the addresses natsSrvPool_Create admits, in its order
Configured(o) == (IF o.url # NullStr THEN <<o.url>> ELSE <<>>) \o o.servers

\* where natsSrvPool_Create's own allocations may fail
CreateFaults == {"none", "pool", "srvrs", "hash"}

RECURSIVE AdmitFrom(_, _, _, _)
RECURSIVE AdmitAdded(_, _, _, _)
AdmitFrom(st, addrs, i, fault) ==
    IF i > Len(addrs)
    THEN [st |-> st, s |-> NATS_OK]
    ELSE AdmitAdded(_addURLToPool(st, addrs[i], FaultAt(fault, i)),
                    addrs, i, fault)

AdmitAdded(r, addrs, i, fault) ==
    IF r.s = NATS_OK THEN AdmitFrom(r.st, addrs, i + 1, fault) ELSE r

\* lines 221-226
PoolSize(o) ==
    IF Len(Configured(o)) = 0 THEN 1 ELSE Len(Configured(o))

\* lines 228-240: the pool and its array of poolSize slots
NewPool(poolSize) ==
    [srvrs |-> [j \in 0..(poolSize - 1) |-> NULL], size |-> 0,
     cap |-> poolSize, urls |-> {}]

\* lines 221-250: allocate the pool, admit the configured addresses;
\* early: natsSrvPool_Create has returned, no pool was allocated
CreateAdmit(st, o, fault) ==
    IF fault.create \in {"pool", "srvrs"}
    THEN [st |-> st, s |-> NATS_NO_MEMORY, early |-> TRUE]
    ELSE IF fault.create = "hash"
         THEN [st |-> [st EXCEPT !.pool = NewPool(PoolSize(o))],
               s |-> NATS_NO_MEMORY, early |-> FALSE]
         ELSE [early |-> FALSE] @@
              AdmitFrom([st EXCEPT !.pool = NewPool(PoolSize(o))],
                        Configured(o), 1, fault)

NeedsDefault_Never(p) == FALSE

\* if (pool->size == 0): place the default URL
NeedsDefault(p) == p.size = 0

CreateReturn_KeepPool(d, shuffle) ==
    [st |-> d.st, s |-> d.s, shuffle |-> shuffle]

\* lines 265-270
CreateReturn(d, shuffle) ==
    [st |-> IF d.s = NATS_OK THEN d.st ELSE natsSrvPool_Destroy(d.st),
     s |-> d.s, shuffle |-> shuffle]

\* lines 258-262, the pool having been shuffled or not
CreateDefault(st2, o, fault, shuffle) ==
    IF NeedsDefault(st2.pool)
    THEN CreateReturn(_addURLToPool(st2, NATS_DEFAULT_URL,
                                    FaultAt(fault, Len(Configured(o)) + 1)),
                      shuffle)
    ELSE CreateReturn([st |-> st2, s |-> NATS_OK], shuffle)

CreateShuffled(a, st2, o, fault) ==
    CreateDefault(st2, o, fault, Shuffled(a.st, st2))

\* lines 252-270, the admissions having ended as a
CreateEnd(a, o, fault, rnd) ==
    IF a.early
    THEN [st |-> a.st, s |-> a.s, shuffle |-> NoShuffle]
    ELSE IF a.s # NATS_OK
         THEN CreateReturn(a, NoShuffle)
         ELSE IF ~o.noRandomize
              THEN CreateShuffled(a, _shufflePool(a.st, rnd), o, fault)
              ELSE CreateDefault(a.st, o, fault, NoShuffle)

natsSrvPool_Create(st, o, fault, rnd) ==
    CreateEnd(CreateAdmit(st, o, fault), o, fault, rnd)

(* ---------------------------- the client ------------------------------- *)
\* a natsUrl* that belongs to no srv of this pool
ForeignUrl == MaxSrv + 1000

NoFault == [create |-> "none", at |-> 0, kind |-> "none"]
\* the faults of a call that makes at most n _addURLToPool calls
AddFaultsUpTo(n) ==
    {NoFault} \cup {[create |-> "none", at |-> k, kind |-> f] :
                       k \in 1..n, f \in AddFaults \ {"none"}}
AllCreateFaults(n) ==
    AddFaultsUpTo(n) \cup {[create |-> c, at |-> 0, kind |-> "none"] :
                              c \in CreateFaults \ {"none"}}

\* rand() values that make _shufflePool swap nothing
IdStream(n) == [i \in 0..(n - 1) |-> i]

\* the fault falls on an allocation the call really makes
MergeFaultHits(st, urls, fault) ==
    fault # NoFault =>
       MergeFrom(st, urls, 1, 0, FALSE, fault)
          # MergeFrom(st, urls, 1, 0, FALSE, NoFault)
CreateFaultHits(st, o, fault) ==
    fault # NoFault =>
       natsSrvPool_Create(st, o, fault, IdStream(Len(Configured(o))))
          # natsSrvPool_Create(st, o, NoFault, IdStream(Len(Configured(o))))

SeqsUpTo(S, n) == UNION {[1..k -> S] : k \in 0..n}

Cur == State(pool, heap, freed)

NoCall == [op |-> "none", url |-> NULL, urls |-> <<>>, doShuffle |-> FALSE,
           s |-> NATS_OK, ret |-> NULL, index |-> 0 - 1,
           shuffle |-> NoShuffle, fault |-> NoFault]

NoRun == [orig |-> <<>>, k |-> 0]

Init ==
    /\ opts \in [url : {NullStr, <<"tls://", "a", ":", "4222">>},
                 servers : SeqsUpTo(ConfigStrs, MaxServers),
                 noRandomize : BOOLEAN,
                 maxReconnect : (0 - 1)..MaxBudget]
    /\ pool = NoPool
    /\ heap = <<>>
    /\ freed = <<>>
    /\ pc = "start"
    /\ last = NoCall
    /\ run = NoRun

\* natsSrvPool_Create(&pool, opts)
Create ==
    /\ pc = "start"
    /\ \E fault \in AllCreateFaults(Len(Configured(opts)) + 1) :
       /\ CreateFaultHits(Cur, opts, fault)
       /\ \E rnd \in RandStreams(IF opts.noRandomize THEN 0
                              ELSE CreateAdmit(Cur, opts, fault).st.pool.size) :
          \E r \in {natsSrvPool_Create(Cur, opts, fault, rnd)} :
              /\ pool' = r.st.pool
              /\ heap' = r.st.heap
              /\ freed' = r.st.freed
              /\ pc' = IF r.s = NATS_OK THEN "live" ELSE "failed"
              /\ last' = [NoCall EXCEPT !.op = "Create", !.s = r.s,
                             !.shuffle = r.shuffle,
                             !.fault = fault]
              /\ run' = [orig |-> PoolSeq(r.st.pool), k |-> 0]
    /\ UNCHANGED opts

\* natsSrvPool_GetCurrentServer(pool, url, &index)
GetCurrentServer ==
    /\ pc = "live"
    /\ \E url \in (1..Len(heap)) \cup {ForeignUrl} :
          \E f \in {natsSrvPool_GetCurrentServer(Cur, url)} :
              last' = [NoCall EXCEPT !.op = "GetCurrentServer", !.url = url,
                          !.ret = f.s, !.index = f.index]
    /\ UNCHANGED <<opts, pool, heap, freed, pc, run>>

\* natsSrvPool_GetNextServer(pool, opts, ncUrl)
GetNextServer ==
    /\ pc = "live"
    /\ \E ncUrl \in (1..Len(heap)) \cup {ForeignUrl} :
          \E r \in {natsSrvPool_GetNextServer(Cur, opts.maxReconnect, ncUrl)},
             f \in {natsSrvPool_GetCurrentServer(Cur, ncUrl)} :
              /\ pool' = r.st.pool
              /\ heap' = r.st.heap
              /\ freed' = r.st.freed
              /\ last' = [NoCall EXCEPT !.op = "GetNextServer", !.url = ncUrl,
                             !.ret = r.ret, !.index = f.index]
              /\ run' = IF f.index = 0 /\ run.k < Len(run.orig)
                        THEN [run EXCEPT !.k = @ + 1]
                        ELSE IF f.index = 0
                             THEN [orig |-> PoolSeq(pool), k |-> 1]
                             ELSE [orig |-> PoolSeq(r.st.pool), k |-> 0]
    /\ UNCHANGED <<opts, pc>>

\* natsSrvPool_addNewURLs(pool, urls, urlCount, doShuffle)
addNewURLs ==
    /\ pc = "live"
    /\ \E urls \in SeqsUpTo(DiscoveredStrs, MaxUrls), doShuffle \in BOOLEAN :
          /\ Len(heap) + Len(urls) <= MaxSrv
          /\ \E fault \in AddFaultsUpTo(Len(urls)) :
             /\ MergeFaultHits(Cur, urls, fault)
             /\ \E rnd \in RandStreams(IF doShuffle
                                      THEN MergeFrom(Cur, urls, 1, 0, FALSE, fault).st.pool.size
                                      ELSE 0) :
                \E r \in {natsSrvPool_addNewURLs(Cur, urls, doShuffle, fault, rnd)} :
                    /\ pool' = r.st.pool
                    /\ heap' = r.st.heap
                    /\ freed' = r.st.freed
                    /\ last' = [NoCall EXCEPT !.op = "addNewURLs", !.urls = urls,
                                   !.doShuffle = doShuffle, !.s = r.s,
                                   !.shuffle = r.shuffle,
                                   !.fault = fault]
                    /\ run' = [orig |-> PoolSeq(r.st.pool), k |-> 0]
    /\ UNCHANGED <<opts, pc>>

\* the connection layer counts a failed dial to a server of the pool
RecordFailure ==
    /\ pc = "live"
    /\ \E srv \in InPool(pool) :
          /\ heap[srv].reconnects < MaxAttempts
          /\ heap' = [heap EXCEPT ![srv].reconnects = @ + 1]
    /\ last' = [NoCall EXCEPT !.op = "RecordFailure"]
    /\ UNCHANGED <<opts, pool, freed, pc, run>>

\* natsSrvPool_Destroy(pool), also with the NULL pool of a failed create
Destroy ==
    /\ pc \in {"live", "failed"}
    /\ \E st \in {natsSrvPool_Destroy(Cur)} :
           /\ pool' = st.pool
           /\ heap' = st.heap
           /\ freed' = st.freed
    /\ pc' = "destroyed"
    /\ last' = [NoCall EXCEPT !.op = "Destroy"]
    /\ run' = NoRun
    /\ UNCHANGED opts

\* the calls that can change the pool
NextMut ==
    \/ Create
    \/ GetNextServer
    \/ addNewURLs
    \/ RecordFailure
    \/ Destroy

Next ==
    \/ NextMut
    \/ GetCurrentServer

\* the whole client
Spec == Init /\ [][Next]_vars

\* the client without its read-only lookups: the same pools are reachable
SpecMut == Init /\ [][NextMut]_vars

TypeOK ==
    /\ pc \in {"start", "live", "failed", "destroyed"}
    /\ pool.size \in 0..pool.cap
    /\ Len(freed) = Len(heap)


(* ------------------- the client that keeps failing --------------------- *)
\* a finite budget, no natsSrvPool_addNewURLs: every dial to the server at
\* index 0 fails, the failure is counted and the server is rotated
InitRetry ==
    /\ opts \in [url : {NullStr, <<"tls://", "a", ":", "4222">>},
                 servers : SeqsUpTo(ConfigStrs, MaxServers),
                 noRandomize : BOOLEAN,
                 maxReconnect : 0..MaxRetryBudget]
    /\ pool = NoPool
    /\ heap = <<>>
    /\ freed = <<>>
    /\ pc = "start"
    /\ last = NoCall
    /\ run = NoRun

\* the dial to pool->srvrs[0] fails: srv->reconnects++
FailCurrent ==
    /\ pc = "live"
    /\ pool.size > 0
    /\ last.op # "RecordFailure"
    /\ heap[pool.srvrs[0]].reconnects <= MaxRetryBudget
    /\ heap' = [heap EXCEPT ![pool.srvrs[0]].reconnects = @ + 1]
    /\ last' = [NoCall EXCEPT !.op = "RecordFailure"]
    /\ UNCHANGED <<opts, pool, freed, pc, run>>

\* natsSrvPool_GetNextServer(pool, opts, pool->srvrs[0]->url) after the
\* failed dial; run.k counts these calls since natsSrvPool_Create
RotateCurrent ==
    /\ pc = "live"
    /\ pool.size > 0
    /\ last.op = "RecordFailure"
    /\ \E ncUrl \in {heap[pool.srvrs[0]].url.ptr} :
          \E r \in {natsSrvPool_GetNextServer(Cur, opts.maxReconnect, ncUrl)},
             f \in {natsSrvPool_GetCurrentServer(Cur, ncUrl)} :
              /\ pool' = r.st.pool
              /\ heap' = r.st.heap
              /\ freed' = r.st.freed
              /\ last' = [NoCall EXCEPT !.op = "GetNextServer", !.url = ncUrl,
                             !.ret = r.ret, !.index = f.index]
              /\ run' = [run EXCEPT !.k = @ + 1]
    /\ UNCHANGED <<opts, pc>>

NextRetry ==
    \/ Create
    \/ FailCurrent
    \/ RotateCurrent

\* the client goes on dialing as long as a server is left
SpecRetry ==
    InitRetry /\ [][NextRetry]_vars /\ WF_vars(FailCurrent \/ RotateCurrent)

(* ------------------------- properties ---------------------------------- *)
\* the normalized host:port of the entry at C index i
KeyAt(i) == BareURL(heap[pool.srvrs[i]].url)
\* the normalized host:port strings of the entries of the sequence
Keys == {KeyAt(i) : i \in 0..(pool.size - 1)}
\* the C indices of the entries that carry the address key
Carriers(key) == {i \in 0..(pool.size - 1) : KeyAt(i) = key}

\* C1: in every pool the client holds, no two entries of the ordered
\* sequence have the same normalized host:port.
C1_NoDuplicateAddress ==
    pc = "live" =>
       \A i, j \in 0..(pool.size - 1) : i # j => KeyAt(i) # KeyAt(j)

\* C2: the dedup set holds exactly the normalized host:port strings of the
\* entries currently in the ordered sequence.
C2_UrlsExact ==
    pc = "live" => pool.urls = Keys

\* C3: after a successful natsSrvPool_addNewURLs call each address handed in
\* is the normalized host:port of exactly one entry of the sequence.
C3_MergedAllPresent ==
    (pc = "live" /\ last.op = "addNewURLs" /\ last.s = NATS_OK) =>
       \A k \in 1..Len(last.urls) : Cardinality(Carriers(last.urls[k])) = 1

\* C4: a successful natsSrvPool_Create leaves at least one entry, and from
\* an empty configuration exactly one, the default address, whatever
\* noRandomize is.
C4_CreateNonEmpty ==
    (last.op = "Create" /\ last.s = NATS_OK) =>
       /\ pc = "live"
       /\ pool.size >= 1
       /\ Configured(opts) = <<>> =>
             /\ pool.size = 1
             /\ heap[pool.srvrs[0]].url.fullUrl = NATS_DEFAULT_URL
             /\ KeyAt(0) = <<"localhost", ":", "4222">>

C4_Witness ==
    /\ last.op = "Create" /\ last.s = NATS_OK
    /\ Configured(opts) = <<>>
    /\ ~opts.noRandomize
    /\ pool.size = 1


\* seq turned left by k places
RotL(seq, k) == [i \in 1..Len(seq) |-> seq[((i - 1 + k) % Len(seq)) + 1]]
\* seq without its i-th element
RemoveAt(seq, i) ==
    [j \in 1..(Len(seq) - 1) |-> IF j < i THEN seq[j] ELSE seq[j + 1]]
Distinct(seq) == \A i, j \in 1..Len(seq) : i # j => seq[i] # seq[j]
Count(seq, x) == Cardinality({i \in 1..Len(seq) : seq[i] = x})
IsPermutation(s1, s2) ==
    /\ Len(s1) = Len(s2)
    /\ \A i \in 1..Len(s2) : Count(s1, s2[i]) = Count(s2, s2[i])

\* C5: with an unlimited budget, N rotations in a row from index 0 of a pool
\* of N servers keep the size, never return NULL, return the servers that
\* were at index 1, 2, .. N-1 and then the one that was at index 0, and leave
\* the sequence in its original order.
C5_RoundRobin ==
    (pc = "live" /\ opts.maxReconnect < 0 /\ run.k >= 1) =>
       LET N == Len(run.orig)
       IN  /\ run.k <= N
           /\ pool.size = N
           /\ Distinct(run.orig)
           /\ PoolSeq(pool) = RotL(run.orig, run.k)
           /\ run.k = N => PoolSeq(pool) = run.orig
           /\ last.op = "GetNextServer" =>
                 /\ last.ret # NULL
                 /\ last.ret = run.orig[(run.k % N) + 1]

C5_Witness ==
    /\ pc = "live" /\ opts.maxReconnect < 0
    /\ last.op = "GetNextServer"
    /\ Len(run.orig) = 3 /\ run.k = 3
    /\ last.ret = run.orig[1]

\* C6: with maxReconnect = 0 every rotation of a server of the pool removes
\* it for good, whatever its reconnects: after k rotations from index 0 a
\* pool of N has size N-k, the k-th returns the server that was at index k,
\* and the N-th leaves size 0 and returns NULL.
C6_ZeroBudgetEvicts ==
    (pc = "live" /\ opts.maxReconnect = 0) =>
       /\ \A srv \in 1..Len(heap) : freed[srv] >= 1 => srv \notin InPool(pool)
       /\ (last.op = "GetNextServer" /\ last.index >= 0) =>
             /\ freed[last.url] = 1
             /\ last.url \notin InPool(pool)
       /\ run.k >= 1 =>
             LET N == Len(run.orig)
             IN  /\ pool.size = N - run.k
                 /\ PoolSeq(pool) = SubSeq(run.orig, run.k + 1, N)
                 /\ last.op = "GetNextServer" =>
                       last.ret = IF run.k < N THEN run.orig[run.k + 1]
                                  ELSE NULL

C6_Witness ==
    /\ pc = "live" /\ opts.maxReconnect = 0
    /\ last.op = "GetNextServer"
    /\ Len(run.orig) = 3 /\ run.k = 3
    /\ pool.size = 0 /\ last.ret = NULL
    /\ \E srv \in 1..Len(heap) : heap[srv].reconnects = 1

\* C7: a rotation of a server of the pool puts it back at the tail (same
\* size) exactly when maxReconnect < 0 or its reconnects < maxReconnect, and
\* otherwise evicts it (size one less, server gone); it returns NULL if the
\* sequence is then empty and else the entry at index 0.
C7_Step ==
    last'.op = "GetNextServer" =>
       \A i \in 0..(pool.size - 1) :
          heap[pool.srvrs[i]].url.ptr = last'.url =>
             LET srv == pool.srvrs[i]
                 rest == RemoveAt(PoolSeq(pool), i + 1)
                 keep == \/ opts.maxReconnect < 0
                         \/ heap[srv].reconnects < opts.maxReconnect
             IN  /\ keep => /\ PoolSeq(pool') = Append(rest, srv)
                            /\ pool'.size = pool.size
                            /\ freed'[srv] = 0
                 /\ ~keep => /\ PoolSeq(pool') = rest
                             /\ pool'.size = pool.size - 1
                             /\ srv \notin InPool(pool')
                 /\ last'.ret = IF pool'.size = 0 THEN NULL
                                ELSE pool'.srvrs[0]
                 /\ (pool.size = 1 /\ keep) => last'.ret = srv
C7_RotateFate == [][C7_Step]_vars

\* [a,b,c] with maxReconnect 1: b, with one failed attempt, was evicted
C7_Witness ==
    /\ pc = "live" /\ opts.maxReconnect = 1
    /\ last.op = "GetNextServer" /\ last.index = 0
    /\ heap[last.url].reconnects = 1
    /\ freed[last.url] = 1
    /\ pool.size = 2
    /\ last.ret = pool.srvrs[0]

\* C8: a rotation with a reference that no entry of the pool has returns
\* NULL and changes nothing: same entries, order, size and dedup set, and no
\* server is released.
C8_Step ==
    (/\ last'.op = "GetNextServer"
     /\ \A i \in 0..(pool.size - 1) : heap[pool.srvrs[i]].url.ptr # last'.url)
    => /\ last'.ret = NULL
       /\ pool' = pool
       /\ heap' = heap
       /\ freed' = freed
C8_UnknownReference == [][C8_Step]_vars

\* the reference of an evicted server is passed to a pool that has entries
C8_Witness ==
    /\ pc = "live"
    /\ last.op = "GetNextServer"
    /\ last.url \in 1..Len(heap)
    /\ heap[last.url].url.ptr = last.url
    /\ freed[last.url] = 1
    /\ last.url \notin InPool(pool)
    /\ last.ret = NULL
    /\ pool.size >= 1

\* C9: what _shufflePool leaves is a permutation of what it was given: the
\* same servers, each once, the same size; the dedup set and every
\* reconnects counter are unchanged.
C9_ShufflePure ==
    last.shuffle.called =>
       LET a == last.shuffle.in
           b == last.shuffle.out
       IN  /\ b.pool.size = a.pool.size
           /\ b.pool.cap = a.pool.cap
           /\ IsPermutation(PoolSeq(b.pool), PoolSeq(a.pool))
           /\ Distinct(PoolSeq(b.pool))
           /\ b.pool.urls = a.pool.urls
           /\ b.heap = a.heap
           /\ b.freed = a.freed

C9_Witness ==
    /\ last.shuffle.called
    /\ last.shuffle.in.pool.size = 3
    /\ PoolSeq(last.shuffle.out.pool) # PoolSeq(last.shuffle.in.pool)

\* C10: natsSrvPool_GetCurrentServer returns the entry and the index i
\* exactly when the entry at index i has the url pointer looked for, and
\* NULL and -1 when no entry has it; entries with equal address text are
\* told apart; the pool is not modified.
C10_Step ==
    last'.op = "GetCurrentServer" =>
       LET M == {i \in 0..(pool.size - 1) :
                    heap[pool.srvrs[i]].url.ptr = last'.url}
       IN  /\ pool' = pool /\ heap' = heap /\ freed' = freed
           /\ M = {} => (last'.ret = NULL /\ last'.index = 0 - 1)
           /\ M # {} => /\ M = {last'.index}
                        /\ last'.ret = pool.srvrs[last'.index]
C10_FindByIdentity == [][C10_Step]_vars

\* the second of two entries with the same address text is looked up
C10_Witness ==
    /\ last.op = "GetCurrentServer"
    /\ last.index = 1
    /\ last.ret = pool.srvrs[1]
    /\ heap[pool.srvrs[0]].url.fullUrl = heap[pool.srvrs[1]].url.fullUrl

\* C11: a natsSrvPool_addNewURLs call whose addresses all are in pool->urls
\* returns NATS_OK and leaves the pool as it was, order included, also with
\* doShuffle set; _shufflePool is called after a merge only if doShuffle is
\* set and the call has admitted at least one address.
C11_Step ==
    last'.op = "addNewURLs" =>
       /\ (\A k \in 1..Len(last'.urls) : last'.urls[k] \in pool.urls) =>
             /\ last'.s = NATS_OK
             /\ pool' = pool
             /\ heap' = heap
             /\ freed' = freed
             /\ ~last'.shuffle.called
       /\ last'.shuffle.called =>
             /\ last'.doShuffle
             /\ pool'.size > pool.size
             /\ \E k \in 1..Len(last'.urls) : last'.urls[k] \notin pool.urls
C11_MergeKnownNoop == [][C11_Step]_vars

\* a known address is merged, doShuffle set, into a pool of two
C11_Witness ==
    /\ pc = "live"
    /\ last.op = "addNewURLs" /\ last.doShuffle /\ last.s = NATS_OK
    /\ Len(last.urls) = 1
    /\ last.urls[1] \in Keys
    /\ ~last.shuffle.called
    /\ pool.size >= 2

\* C12: when natsSrvPool_Create fails, with NATS_NO_MEMORY or on an address
\* that does not parse, at whatever position, the caller gets no pool: the
\* pool, its array and its map are gone and every srv created by the call,
\* admitted before the failure or not, has been released once.
C12_FailedCreateLeavesNothing ==
    (last.op = "Create" /\ last.s # NATS_OK) =>
       /\ pc = "failed"
       /\ pool = NoPool
       /\ \A srv \in 1..Len(heap) : freed[srv] = 1

\* two addresses were admitted, the third does not parse
C12_Witness ==
    /\ last.op = "Create" /\ last.s = NATS_ERR
    /\ pc = "failed"
    /\ Len(heap) = 3
    /\ heap[1].url # NoUrl /\ heap[2].url # NoUrl /\ heap[3].url = NoUrl
    /\ freed = <<1, 1, 1>>

\* C13: a natsSrvPool_addNewURLs call that meets an address whose admission
\* fails returns the error of that admission (the parse error, or
\* NATS_NO_MEMORY); the entries the pool had and those admitted earlier in
\* the call are in the sequence, unreleased; no entry carries the failing
\* address; and nothing is created for the addresses after it.
C13_Step ==
    last'.op = "addNewURLs" =>
       LET urls == last'.urls
           \* the addresses before urls[j] that the pool did not know
           NewBefore(j) == {urls[k] : k \in 1..(j - 1)} \ pool.urls
           \* the entries the call has added
           Added == InPool(pool') \ InPool(pool)
       IN  /\ last'.fault # NoFault => last'.s = NATS_NO_MEMORY
           /\ (last'.fault = NoFault /\ \E j \in 1..Len(urls) : urls[j] = BadStr)
                 => last'.s = NATS_ERR
           /\ last'.s # NATS_OK =>
                 \E j \in 1..Len(urls) :
                    /\ urls[j] \notin pool.urls
                    /\ last'.fault = NoFault => urls[j] = BadStr
                    /\ \A i \in 0..(pool'.size - 1) :
                          BareURL(heap'[pool'.srvrs[i]].url) # urls[j]
                    /\ InPool(pool) \subseteq InPool(pool')
                    /\ pool'.size = pool.size + Cardinality(NewBefore(j))
                    /\ {BareURL(heap'[srv].url) : srv \in Added} = NewBefore(j)
                    /\ \A srv \in InPool(pool') : freed'[srv] = 0
                    /\ Len(heap') <= Len(heap) + Cardinality(NewBefore(j)) + 1
                    /\ \A srv \in (Len(heap) + 1)..Len(heap') :
                          srv \notin Added => freed'[srv] = 1
C13_MergeFailsFast == [][C13_Step]_vars

\* the first address was admitted, the second does not parse
C13_Witness ==
    /\ pc = "live"
    /\ last.op = "addNewURLs" /\ last.s = NATS_ERR
    /\ Len(last.urls) = 2 /\ last.urls[2] = BadStr
    /\ Len(heap) = 3 /\ heap[3].url = NoUrl
    /\ pool.size = 2
    /\ pool.srvrs[1] = 2 /\ KeyAt(1) = last.urls[1]

\* the first address fails in NATS_REALLOC, the second, unknown, is left out
C13_WitnessRest ==
    /\ pc = "live"
    /\ last.op = "addNewURLs" /\ last.s = NATS_NO_MEMORY
    /\ last.fault.kind = "realloc"
    /\ Len(last.urls) = 2 /\ last.urls[1] # last.urls[2]
    /\ last.urls[2] \notin pool.urls
    /\ last.urls[2] # BadStr

\* the pool has been emptied by the last natsSrvPool_GetNextServer call
Drained ==
    /\ pc = "live"
    /\ pool.size = 0
    /\ last.op = "GetNextServer"
    /\ last.ret = NULL

\* C14: with maxReconnect = M >= 0 and no merge, a client that before each
\* rotation counts a failed dial on the server at index 0 makes at most
\* N*(M+1) natsSrvPool_GetNextServer calls on a pool created with N servers
\* before the pool is empty, and that call returns NULL; the pool does
\* become empty; and a server once evicted is not in the sequence, is never
\* returned by natsSrvPool_GetNextServer and is not found by
\* natsSrvPool_GetCurrentServer.
C14_RetryInv ==
    pc = "live" =>
       /\ run.k <= Len(run.orig) * (opts.maxReconnect + 1)
       /\ pool.size > 0 => run.k < Len(run.orig) * (opts.maxReconnect + 1)
       /\ last.op = "GetNextServer" =>
             /\ last.ret = NULL <=> pool.size = 0
             /\ last.ret # NULL => freed[last.ret] = 0
       /\ \A srv \in 1..Len(heap) :
             freed[srv] >= 1 =>
                /\ srv \notin InPool(pool)
                /\ natsSrvPool_GetCurrentServer(Cur, heap[srv].url.ptr)
                      = [s |-> NULL, index |-> 0 - 1]
C14_RetryEndsEmpty == []C14_RetryInv /\ ((pc = "live") ~> Drained)

\* three servers, maxReconnect 2: each was re-appended once, then evicted
C14_Witness ==
    /\ Drained
    /\ opts.maxReconnect = 2
    /\ Len(run.orig) = 3
    /\ run.k = 6
    /\ \A srv \in 1..3 : freed[srv] = 1 /\ heap[srv].reconnects = 2

\* seq without the elements equal to x
Without(seq, x) == SelectSeq(seq, LAMBDA y : y # x)

\* C15: natsSrvPool_GetNextServer, for a server found at any index, leaves
\* the other entries in the order they had, whether the server is put at
\* the tail or evicted: the sequence without the rotated server is the same
\* before and after, and no other entry is lost or released.
C15_Step ==
    (last'.op = "GetNextServer" /\ last'.index >= 0) =>
       LET srv == pool.srvrs[last'.index]
       IN  /\ Without(PoolSeq(pool'), srv) = Without(PoolSeq(pool), srv)
           /\ Len(Without(PoolSeq(pool), srv)) = pool.size - 1
           /\ \A o \in InPool(pool) \ {srv} : freed'[o] = freed[o]
C15_OthersKeepOrder == [][C15_Step]_vars

\* the middle one of three servers was rotated to the tail
C15_Witness ==
    /\ pc = "live"
    /\ last.op = "GetNextServer" /\ last.index = 1
    /\ pool.size = 3
    /\ heap[pool.srvrs[2]].url.ptr = last.url
    /\ last.ret = pool.srvrs[0]

\* the middle one of three servers was evicted
C15_WitnessEvicted ==
    /\ pc = "live"
    /\ last.op = "GetNextServer" /\ last.index = 1
    /\ pool.size = 2
    /\ Len(heap) = 3
    /\ freed[last.url] = 1

\* the address texts of the entries of the sequence, in order
FullUrls == [i \in 1..pool.size |-> heap[pool.srvrs[i - 1]].url.fullUrl]

\* C16: with noRandomize set and configured addresses whose host:port are
\* pairwise distinct, the sequence right after a successful
\* natsSrvPool_Create is opts->url (if not NULL) at index 0 followed by
\* opts->servers in their listed order (and NATS_DEFAULT_URL alone when
\* nothing is configured).
C16_ConfiguredOrder ==
    LET listed == (IF opts.url # NullStr THEN <<opts.url>> ELSE <<>>)
                     \o opts.servers
    IN  (/\ last.op = "Create" /\ last.s = NATS_OK
         /\ opts.noRandomize
         /\ \A i, j \in 1..Len(listed) :
               i # j => StripScheme(listed[i]) # StripScheme(listed[j]))
        => /\ ~last.shuffle.called
           /\ FullUrls = IF listed = <<>> THEN <<NATS_DEFAULT_URL>> ELSE listed
           /\ opts.url # NullStr =>
                 heap[pool.srvrs[0]].url.fullUrl = opts.url
           /\ Distinct(PoolSeq(pool))

\* url tls://a:4222 and servers {nats://b:4222}: the pool is [a, b]
C16_Witness ==
    /\ last.op = "Create" /\ last.s = NATS_OK
    /\ opts.noRandomize
    /\ opts.url # NullStr
    /\ opts.servers = <<(<<"nats://", "b", ":", "4222">>)>>
    /\ pool.size = 2
    /\ KeyAt(0) = <<"a", ":", "4222">> /\ KeyAt(1) = <<"b", ":", "4222">>

\* C17: when _addURLToPool fails in NATS_REALLOC the pool is as it was
\* before that admission: the srv created for it is released, and
\* pool->urls holds no key for it, i.e. after the merge it holds what it
\* held before plus the keys of the entries the call has admitted; if the
\* failing admission is the first of the call, the whole pool (sequence,
\* size, cap, urls) is unchanged.
C17_Step ==
    (last'.op = "addNewURLs" /\ last'.fault.kind = "realloc") =>
       /\ last'.s = NATS_NO_MEMORY
       /\ freed'[Len(heap')] = 1
       /\ Len(heap') \notin InPool(pool')
       /\ pool'.urls = pool.urls \cup
                          {BareURL(heap'[srv].url) :
                              srv \in InPool(pool') \ InPool(pool)}
       /\ last'.fault.at = 1 => pool' = pool
C17_ReallocFailureUndone == [][C17_Step]_vars

\* what does hold then: sequence, size and cap are those before the failing
\* admission and the srv is released; only pool->urls differs
C17_ArrayStep ==
    (last'.op = "addNewURLs" /\ last'.fault.kind = "realloc") =>
       /\ last'.s = NATS_NO_MEMORY
       /\ freed'[Len(heap')] = 1
       /\ Len(heap') \notin InPool(pool')
       /\ last'.fault.at = 1 =>
             /\ PoolSeq(pool') = PoolSeq(pool)
             /\ pool'.srvrs = pool.srvrs
             /\ pool'.size = pool.size
             /\ pool'.cap = pool.cap
             /\ pool'.urls = pool.urls \cup {BareURL(heap'[Len(heap')].url)}
C17_ArrayUndone == [][C17_ArrayStep]_vars

\* the first admission of a merge has failed in NATS_REALLOC
C17_Witness ==
    /\ pc = "live"
    /\ last.op = "addNewURLs" /\ last.fault.kind = "realloc"
    /\ last.fault.at = 1
    /\ last.s = NATS_NO_MEMORY
    /\ last.urls[1] \in pool.urls /\ last.urls[1] \notin Keys

\* C18: a srv has reconnects = 0 when _createSrv has made it, and no call
\* of the pool (natsSrvPool_Create, _GetCurrentServer, _GetNextServer with
\* re-append or eviction, _addNewURLs with or without shuffle, _Destroy)
\* changes the reconnects of any srv: only the connection layer does.
C18_Step ==
    /\ Len(heap') >= Len(heap)
    /\ \A srv \in (Len(heap) + 1)..Len(heap') : heap'[srv].reconnects = 0
    /\ last'.op # "RecordFailure" =>
          \A srv \in 1..Len(heap) : heap'[srv].reconnects = heap[srv].reconnects
    /\ last'.shuffle.called =>
          \A srv \in 1..Len(last'.shuffle.in.heap) :
             last'.shuffle.out.heap[srv].reconnects
                = last'.shuffle.in.heap[srv].reconnects
C18_ReconnectsUntouched == [][C18_Step]_vars

\* a server with one failed dial was rotated to the tail of a pool that a
\* merge had extended
C18_Witness ==
    /\ pc = "live"
    /\ last.op = "GetNextServer" /\ last.index >= 0
    /\ last.url \in InPool(pool)
    /\ heap[last.url].reconnects = 1
    /\ Len(heap) = 3
    /\ heap[3].reconnects = 0 /\ 3 \in InPool(pool)

\* C19: each srv is released at most once and never while it is in the
\* sequence; while the pool lives the unreleased srvs are exactly those in
\* the sequence (eviction and failed admission release theirs); after
\* natsSrvPool_Destroy every srv ever created has been released once; and
\* natsSrvPool_Destroy(NULL) changes nothing.
C19_Inv ==
    /\ \A srv \in 1..Len(heap) : freed[srv] \in {0, 1}
    /\ \A srv \in InPool(pool) : srv \in 1..Len(heap) /\ freed[srv] = 0
    /\ pc = "live" =>
          \A srv \in 1..Len(heap) : freed[srv] = 0 => srv \in InPool(pool)
    /\ pc \in {"failed", "destroyed"} =>
          /\ pool = NoPool
          /\ \A srv \in 1..Len(heap) : freed[srv] = 1
C19_Step ==
    /\ \A srv \in 1..Len(heap) :
          freed'[srv] # freed[srv] =>
             /\ freed[srv] = 0
             /\ srv \in InPool(pool)
             /\ last'.op \in {"GetNextServer", "Destroy"}
             /\ last'.op = "GetNextServer" => heap[srv].url.ptr = last'.url
    /\ (last'.op = "Destroy" /\ pool = NoPool) =>
          pool' = pool /\ heap' = heap /\ freed' = freed
C19_ReleasedOnce == []C19_Inv /\ [][C19_Step]_vars

\* torn down after two admissions and a failed one
C19_Witness ==
    /\ pc = "destroyed" /\ last.op = "Destroy"
    /\ Len(heap) = 3
    /\ heap[3].url = NoUrl
    /\ heap[1].reconnects = 1
    /\ freed = <<1, 1, 1>>

\* natsSrvPool_Destroy(NULL) after a natsSrvPool_Create that made no srv
C19_WitnessNull ==
    /\ pc = "destroyed" /\ last.op = "Destroy"
    /\ heap = <<>> /\ freed = <<>>

\* the cap after k admissions into an array of cap slots holding size
\* entries, each admission into a full array doubling it first
RECURSIVE CapAfter(_, _, _)
CapAfter(cap, size, k) ==
    IF k = 0 THEN cap
    ELSE CapAfter(IF size + 1 > cap THEN 2 * cap ELSE cap, size + 1, k - 1)

\* C20: in every pool 0 <= size <= cap and cap >= 1, the array has the
\* slots 0..cap-1 and the slots below size hold servers; natsSrvPool_Create
\* leaves cap = max(1, number of configured addresses); each admission into
\* a full array doubles cap first and no other changes it;
\* natsSrvPool_GetNextServer keeps cap and reads and writes slots below
\* size only; _shufflePool keeps cap and the array's slots.
C20_Inv ==
    pc = "live" =>
       /\ 0 <= pool.size /\ pool.size <= pool.cap
       /\ pool.cap >= 1
       /\ DOMAIN pool.srvrs = 0..(pool.cap - 1)
       /\ \A i \in 0..(pool.size - 1) : pool.srvrs[i] \in 1..Len(heap)
       /\ (last.op = "Create" /\ last.s = NATS_OK) =>
             LET n == (IF opts.url # NullStr THEN 1 ELSE 0) + Len(opts.servers)
             IN  pool.cap = IF n = 0 THEN 1 ELSE n
       /\ last.shuffle.called =>
             /\ last.shuffle.out.pool.cap = last.shuffle.in.pool.cap
             /\ DOMAIN last.shuffle.out.pool.srvrs
                   = 0..(last.shuffle.in.pool.cap - 1)
             /\ last.shuffle.out.pool.size = last.shuffle.in.pool.size
C20_Step ==
    /\ last'.op = "GetNextServer" =>
          /\ pool'.cap = pool.cap
          /\ DOMAIN pool'.srvrs = DOMAIN pool.srvrs
          /\ last'.index >= 0 =>
                LET t == RotateSlots(pool, last'.index,
                                     pool'.size = pool.size)
                IN  /\ t.reads \subseteq 0..(pool.size - 1)
                    /\ t.writes \subseteq 0..(pool.size - 1)
                    /\ \A j \in 0..(pool.cap - 1) :
                          j \notin t.writes => pool'.srvrs[j] = pool.srvrs[j]
    /\ last'.op = "addNewURLs" =>
          /\ pool'.size >= pool.size
          /\ pool'.cap = CapAfter(pool.cap, pool.size, pool'.size - pool.size)
          /\ LET p == IF last'.shuffle.called THEN last'.shuffle.in.pool
                      ELSE pool'
             IN  \A j \in pool.size..(pool'.size - 1) :
                    j < p.cap /\ p.srvrs[j] > Len(heap)
    /\ last'.op \in {"RecordFailure", "GetCurrentServer"} => pool' = pool
C20_Capacity == []C20_Inv /\ [][C20_Step]_vars

\* a merge into the full array of two slots has doubled it
C20_Witness ==
    /\ pc = "live"
    /\ last.op = "addNewURLs" /\ last.s = NATS_OK
    /\ pool.size = 3 /\ pool.cap = 4
    /\ pool.srvrs[2] = 3

====
